---- MODULE Spec2Model ----
(***************************************************************************)
(* Model of the toycask key-value store (src/src/lib.rs).                  *)
(*                                                                         *)
(* The Log file is a sequence of newline-terminated chunks.  A chunk is    *)
(* the serde_json encoding of an Op followed by "\n", possibly with its    *)
(* first `skip` bytes cut off (skip = 0 is a complete line).  Strings are  *)
(* named by short identifiers and carry their byte length through StrLen,  *)
(* so that byte offsets are the ones the program computes.                 *)
(***************************************************************************)
EXTENDS Integers, Sequences, FiniteSets, TLC

\* ---------------------------------------------------------------- bounds
\* byte length of the long value "BIG": Set(k, "BIG") is 1048565 bytes, under
\* the compaction threshold on its own and over it with any second record
BigLen == 1048548
\* number of records a run of Spec appends to the Log (calls of set and
\* remove that reach their write)
MaxAppends == 3
\* the same for SpecDeep, whose runs have no I/O failure
MaxDeepAppends == 4
\* number of I/O calls that fail in a run
MaxIoFailures == 1
\* number of lines of a Log that open is given in SpecReplay
MaxReplayLines == 3

\* ------------------------------------------------------ program constants
\* lib.rs:192  if self.log_size >= 1024*1024
COMPACT_THRESHOLD == 1048576
\* bytes of {"Set":["<k>","<v>"]} around k and v, plus the "\n" of line 96
SetOverhead == 16
\* bytes of {"Rm":"<k>"} around k, plus the "\n" of line 147
RmOverhead == 10
\* bytes of {"Get":"<k>"} around k, plus a "\n"
GetOverhead == 11

\* ---------------------------------------------------------------- strings
Keys == {"a", "b", "c"}
\* BTreeMap<String,u64> iterates in ascending key order
KeyOrder == <<"a", "b", "c">>
Values == {"1", "BIG"}

StrLen(s) == IF s = "BIG" THEN BigLen ELSE 1

\* ------------------------------------------------------------ Record codec
OpSet(k, v) == [tag |-> "Set", key |-> k, value |-> v]
OpRm(k) == [tag |-> "Rm", key |-> k, value |-> ""]
\* the variant no operation writes; construct_index skips it (line 181)
OpGet(k) == [tag |-> "Get", key |-> k, value |-> ""]

\* serde_json::to_vec(&op) followed by extend_from_slice("\n"): its length
SerializedLen(op) ==
    IF op.tag = "Set" THEN SetOverhead + StrLen(op.key) + StrLen(op.value)
    ELSE IF op.tag = "Rm" THEN RmOverhead + StrLen(op.key)
    ELSE GetOverhead + StrLen(op.key)

\* a complete line as written by set/remove
Line(op) == [op |-> op, skip |-> 0]
\* the bytes of a chunk: the encoding of op without its first skip bytes
ChunkLen(c) == SerializedLen(c.op) - c.skip

RECURSIVE FileLen(_)
FileLen(lg) == IF lg = <<>> THEN 0 ELSE ChunkLen(Head(lg)) + FileLen(Tail(lg))

\* serde_json::from_slice::<Op>: only a complete encoding parses; a proper
\* suffix of an encoding, or the empty string, is a syntax error
DecodeOk(text) == text # <<>> /\ text[1].skip = 0
Decode(text) == text[1].op

\* seek(Start(off)) then read_line: the bytes from off up to and including
\* the next "\n"; <<>> (nothing read) at or past the end of the file
RECURSIVE ReadLineAt(_, _)
ReadLineAt(lg, off) ==
    IF lg = <<>> THEN <<>>
    ELSE IF off < ChunkLen(Head(lg))
         THEN <<[op |-> Head(lg).op, skip |-> Head(lg).skip + off]>>
         ELSE ReadLineAt(Tail(lg), off - ChunkLen(Head(lg)))

\* ------------------------------------------------------------------ Index
EmptyIndex == [k \in {} |-> 0]
IndexInsert(idx, k, off) == [x \in (DOMAIN idx) \cup {k} |-> IF x = k THEN off ELSE idx[x]]
IndexRemove(idx, k) == [x \in (DOMAIN idx) \ {k} |-> idx[x]]

\* ---------------------------------------------------------------- results
Res(tag, v) == [tag |-> tag, value |-> v]
Ok == Res("Ok", "")
None == Res("None", "")
Some(v) == Res("Some", v)
Err(e) == Res("Err", e)

\* ------------------------------------------------------------------ state
VARIABLES
    logExists,   \* the file <dir>/store exists
    log,         \* its content, a sequence of chunks
    opened,      \* a KvStore value exists in the running process
    index,       \* KvStore.index
    log_size,    \* KvStore.log_size
    last,        \* history: the most recent call and what it returned
    latest,      \* history: per key, the value of its latest set, Removed after a remove, NoValue if never set
    ioFailures,  \* history: number of I/O calls that have failed
    appendsLeft, \* history: number of records the run may still append
    sinceRewrite \* history: bytes appended to the file since it was created or last rewritten

vars == <<logExists, log, opened, index, log_size, last, latest, ioFailures, appendsLeft, sinceRewrite>>

NoValue == "<none>"
Removed == "<removed>"
ioFailed == ioFailures > 0

\* KvStore::get, lines 113-138, on a store with index idx over file lg
GetResult(idx, lg, k) ==
    IF k \notin DOMAIN idx THEN None
    ELSE LET text == ReadLineAt(lg, idx[k]) IN
         IF ~DecodeOk(text) THEN Err("SerdeJsonError")
         ELSE IF Decode(text).tag = "Set"
              THEN IF Decode(text).key = k THEN Some(Decode(text).value)
                                           ELSE Err("InvalidKeyError")
              ELSE Err("InvalidCommandError")

GetAll(idx, lg) == [k \in Keys |-> GetResult(idx, lg, k)]
NoGets == [k \in Keys |-> Res("-", "")]

\* ------------------------------------------------------------------ replay
\* a replay that skips a line it cannot parse instead of returning the error
RECURSIVE ReplaySkipBad(_, _, _)
ReplaySkipBad(lg, offset, idx) ==
    IF lg = <<>> THEN [ok |-> TRUE, index |-> idx]
    ELSE LET content == <<Head(lg)>>
             contentLen == ChunkLen(Head(lg)) - 1
         IN ReplaySkipBad(Tail(lg), offset + contentLen + 1,
                          IF ~DecodeOk(content) THEN idx
                          ELSE IF Decode(content).tag = "Set"
                          THEN IndexInsert(idx, Decode(content).key, offset)
                          ELSE IF Decode(content).tag = "Rm"
                               THEN IndexRemove(idx, Decode(content).key)
                               ELSE idx)

\* a replay that advances the offset by content.len() without the "\n"
RECURSIVE ReplayNoTerminator(_, _, _)
ReplayNoTerminator(lg, offset, idx) ==
    IF lg = <<>> THEN [ok |-> TRUE, index |-> idx]
    ELSE LET content == <<Head(lg)>>
             contentLen == ChunkLen(Head(lg)) - 1
         IN IF ~DecodeOk(content) THEN [ok |-> FALSE, index |-> idx]
            ELSE ReplayNoTerminator(Tail(lg), offset + contentLen,
                        IF Decode(content).tag = "Set"
                        THEN IndexInsert(idx, Decode(content).key, offset)
                        ELSE IF Decode(content).tag = "Rm"
                             THEN IndexRemove(idx, Decode(content).key)
                             ELSE idx)

\* KvStore::construct_index, lines 171-185: what the loop leaves in the
\* index, or ok = FALSE when a line does not parse (the ? of line 174)
RECURSIVE Replay(_, _, _)
Replay(lg, offset, idx) ==
    IF lg = <<>> THEN [ok |-> TRUE, index |-> idx]
    ELSE LET content == <<Head(lg)>>              \* the line, "\n" stripped by lines()
             contentLen == ChunkLen(Head(lg)) - 1 \* content.len()
         IN IF ~DecodeOk(content) THEN [ok |-> FALSE, index |-> idx]
            ELSE Replay(Tail(lg), offset + contentLen + 1,
                        IF Decode(content).tag = "Set"
                        THEN IndexInsert(idx, Decode(content).key, offset)
                        ELSE IF Decode(content).tag = "Rm"
                             THEN IndexRemove(idx, Decode(content).key)
                             ELSE idx)

construct_index(lg) == Replay(lg, 0, EmptyIndex)

\* -------------------------------------------------------------- compaction
\* lines 197-200: for each index entry in key order, seek to its offset and
\* read_line into content
RECURSIVE CompactContent(_, _, _)
CompactContent(idx, lg, i) ==
    IF i > Len(KeyOrder) THEN <<>>
    ELSE (IF KeyOrder[i] \in DOMAIN idx THEN ReadLineAt(lg, idx[KeyOrder[i]]) ELSE <<>>)
         \o CompactContent(idx, lg, i + 1)

\* line 192
CompactDue(size) == size >= COMPACT_THRESHOLD

\* KvStore::compact, lines 190-211, on index idx, file lg and counter size;
\* fail names the I/O call that fails, if any.  The index is not an output:
\* compact never assigns to self.index.
compact(idx, lg, size, fail) ==
    IF ~CompactDue(size)
    THEN [log |-> lg, log_size |-> size, res |-> Ok, ran |-> FALSE, rewritten |-> FALSE]
    ELSE IF fail \in {"compact_read", "compact_create"}       \* lines 195-199, 203
         THEN [log |-> lg, log_size |-> size, res |-> Err("IoError"), ran |-> FALSE,
               rewritten |-> FALSE]
    ELSE IF fail = "compact_write"                             \* line 204, after the truncation
         THEN [log |-> <<>>, log_size |-> size, res |-> Err("IoError"), ran |-> FALSE,
               rewritten |-> TRUE]
    ELSE LET content == CompactContent(idx, lg, 1) IN
         [log |-> content, log_size |-> FileLen(content), res |-> Ok, ran |-> TRUE,
          rewritten |-> TRUE]

CompactFails == {"compact_read", "compact_create", "compact_write"}

\* ---------------------------------------------------------------- history
Call(op, k, v, res, ran, pre, fail) ==
    [op |-> op, key |-> k, value |-> v, res |-> res, compacted |-> ran, pre |-> pre, fail |-> fail]

Init ==
    /\ logExists = FALSE
    /\ log = <<>>
    /\ opened = FALSE
    /\ index = EmptyIndex
    /\ log_size = 0
    /\ last = Call("init", "", "", Ok, FALSE, NoGets, "none")
    /\ latest = [k \in Keys |-> NoValue]
    /\ ioFailures = 0
    /\ appendsLeft = MaxAppends
    /\ sinceRewrite = 0

\* ------------------------------------------------------------------- open
\* KvStore::open, lines 72-87, with construct_index.
\*   "open"   File::open of line 78 fails with an error other than NotFound
\*   "create" File::create of line 80 fails
\*   "reopen" File::open of line 169 fails
\*   "read"   reading a line fails: line.unwrap() of line 172 panics
Open(fail) ==
    /\ ~opened
    /\ fail # "none" => ioFailures < MaxIoFailures
    /\ fail = "open" => logExists
    /\ fail = "create" => ~logExists
    /\ LET pre == IF last.op \in {"close", "open"} THEN last.pre ELSE NoGets
           r == construct_index(log)
       IN
       IF fail \in {"open", "create"}
       THEN /\ last' = Call("open", "", "", Err("IoError"), FALSE, pre, fail)
            /\ ioFailures' = ioFailures + 1
            /\ UNCHANGED <<logExists, opened, index, log_size>>
       ELSE /\ logExists' = TRUE
            /\ IF fail = "reopen"
               THEN /\ last' = Call("open", "", "", Err("IoError"), FALSE, pre, fail)
                    /\ ioFailures' = ioFailures + 1
                    /\ UNCHANGED <<opened, index, log_size>>
               ELSE IF fail = "read"
               THEN /\ last' = Call("open", "", "", Res("Panic", ""), FALSE, pre, fail)
                    /\ ioFailures' = ioFailures + 1
                    /\ UNCHANGED <<opened, index, log_size>>
               ELSE IF ~r.ok
               THEN /\ last' = Call("open", "", "", Err("SerdeJsonError"), FALSE, pre, fail)
                    /\ UNCHANGED <<opened, index, log_size, ioFailures>>
               ELSE /\ opened' = TRUE
                    /\ index' = r.index
                    /\ log_size' = 0                       \* line 76
                    /\ last' = Call("open", "", "", Ok, FALSE, pre, fail)
                    /\ UNCHANGED ioFailures
    /\ UNCHANGED <<log, latest, appendsLeft, sinceRewrite>>

\* the process ends and the KvStore is dropped (main.rs, end of main); the
\* history keeps what get returned for every key at that moment
Close ==
    /\ opened
    /\ opened' = FALSE
    /\ index' = EmptyIndex
    /\ log_size' = 0
    /\ last' = Call("close", "", "", Ok, FALSE, GetAll(index, log), "none")
    /\ UNCHANGED <<logExists, log, latest, ioFailures, appendsLeft, sinceRewrite>>

\* ------------------------------------------------------------------ append
\* the file opened with truncate(true) instead of append(true)
AppendRecordTruncating(lg, op) == <<Line(op)>>

\* OpenOptions::new().append(true).create(true), write, flush (lines 97-102
\* and 150-155): the file with the serialized record added at its end
AppendRecord(lg, op) == Append(lg, Line(op))

\* -------------------------------------------------------------------- set
\* the insert of line 106 moved before the write of line 101
SetIndexBeforeWrite(idx, k, offset, fail) ==
    IF fail = "open" THEN idx ELSE IndexInsert(idx, k, offset)

\* the index after set's lines 97-107: the insert of line 106 is reached
\* only when open, seek, write and flush have all returned Ok
SetIndex(idx, k, offset, fail) ==
    IF fail \in {"open", "write"} THEN idx ELSE IndexInsert(idx, k, offset)

\* KvStore::set, lines 89-111.
\*   "open"  OpenOptions::open or seek fails (lines 97-98)
\*   "write" write or flush fails (lines 101-102), after log_size was raised
\*   a member of CompactFails: the call of line 109 fails
Set(k, v, fail) ==
    /\ opened
    /\ appendsLeft > 0
    /\ fail # "none" => ioFailures < MaxIoFailures
    /\ LET op == OpSet(k, v)
           n == SerializedLen(op)                 \* serialized_op.len()
           offset == FileLen(log)                 \* seek(End(0))
           size1 == log_size + n                  \* line 100
           log1 == AppendRecord(log, op)          \* line 101
           index1 == SetIndex(index, k, offset, fail)
           c == compact(index1, log1, size1, fail)
       IN
       /\ fail \in CompactFails => CompactDue(size1)
       /\ index' = index1
       /\ ioFailures' = IF fail = "none" THEN ioFailures ELSE ioFailures + 1
       /\ appendsLeft' = IF fail \in {"open", "write"} THEN appendsLeft ELSE appendsLeft - 1
       /\ IF fail = "open"
          THEN /\ last' = Call("set", k, v, Err("IoError"), FALSE, NoGets, fail)
               /\ UNCHANGED <<log, log_size, latest, sinceRewrite>>
          ELSE IF fail = "write"
          THEN /\ log_size' = size1
               /\ last' = Call("set", k, v, Err("IoError"), FALSE, NoGets, fail)
               /\ UNCHANGED <<log, latest, sinceRewrite>>
          ELSE /\ log' = c.log
               /\ log_size' = c.log_size
               /\ sinceRewrite' = IF c.rewritten THEN 0 ELSE sinceRewrite + n
               /\ latest' = [latest EXCEPT ![k] = v]
               /\ last' = Call("set", k, v, c.res, c.ran,
                               IF c.ran THEN GetAll(index1, log1) ELSE NoGets, fail)
    /\ UNCHANGED <<logExists, opened>>

\* -------------------------------------------------------------------- get
\* a get that ends with the compaction trigger, as set and remove do
GetThenCompact(k, fail) ==
    /\ opened
    /\ fail # "none" => ioFailures < MaxIoFailures
    /\ fail = "read" => k \in DOMAIN index
    /\ LET c == compact(index, log, log_size, "none") IN
       /\ log' = c.log
       /\ log_size' = c.log_size
       /\ sinceRewrite' = IF c.rewritten THEN 0 ELSE sinceRewrite
       /\ last' = Call("get", k, "",
                       IF fail = "read" THEN Err("IoError") ELSE GetResult(index, log, k),
                       c.ran, NoGets, fail)
    /\ ioFailures' = IF fail = "none" THEN ioFailures ELSE ioFailures + 1
    /\ UNCHANGED <<logExists, opened, index, latest, appendsLeft>>

\* KvStore::get, lines 113-138; "read" is a failure of open, seek or
\* read_line (lines 115-121), which are reached only for an indexed key
Get(k, fail) ==
    /\ opened
    /\ fail # "none" => ioFailures < MaxIoFailures
    /\ fail = "read" => k \in DOMAIN index
    /\ last' = Call("get", k, "",
                    IF fail = "read" THEN Err("IoError") ELSE GetResult(index, log, k),
                    FALSE, NoGets, fail)
    /\ ioFailures' = IF fail = "none" THEN ioFailures ELSE ioFailures + 1
    /\ UNCHANGED <<logExists, log, opened, index, log_size, latest, appendsLeft, sinceRewrite>>

\* ----------------------------------------------------------------- remove
\* remove without the presence test of line 142
RemoveKnownAlways(idx, k) == TRUE

\* line 142: if let Some(_) = self.index.get(&key)
RemoveKnown(idx, k) == k \in DOMAIN idx

\* the index after remove's lines 150-159
RemoveIndex(idx, k, fail) ==
    IF fail \in {"open", "write"} THEN idx ELSE IndexRemove(idx, k)

\* KvStore::remove, lines 140-165; fail as for set
Remove(k, fail) ==
    /\ opened
    /\ IF ~RemoveKnown(index, k)
       THEN /\ fail = "none"
            /\ last' = Call("remove", k, "", Err("KeyNotFoundError"), FALSE, NoGets, fail)   \* line 163
            /\ UNCHANGED <<log, index, log_size, latest, ioFailures, appendsLeft, sinceRewrite>>
       ELSE /\ appendsLeft > 0
            /\ fail # "none" => ioFailures < MaxIoFailures
            /\ LET op == OpRm(k)
                   n == SerializedLen(op)
                   size1 == n                          \* line 152: assigned, not added
                   log1 == AppendRecord(log, op)       \* line 154
                   index1 == RemoveIndex(index, k, fail)
                   c == compact(index1, log1, size1, fail)
               IN
               /\ fail \in CompactFails => CompactDue(size1)
               /\ index' = index1
               /\ ioFailures' = IF fail = "none" THEN ioFailures ELSE ioFailures + 1
               /\ appendsLeft' = IF fail \in {"open", "write"} THEN appendsLeft ELSE appendsLeft - 1
               /\ IF fail = "open"
                  THEN /\ last' = Call("remove", k, "", Err("IoError"), FALSE, NoGets, fail)
                       /\ UNCHANGED <<log, log_size, latest, sinceRewrite>>
                  ELSE IF fail = "write"
                  THEN /\ log_size' = size1
                       /\ last' = Call("remove", k, "", Err("IoError"), FALSE, NoGets, fail)
                       /\ UNCHANGED <<log, latest, sinceRewrite>>
                  ELSE /\ log' = c.log
                       /\ log_size' = c.log_size
                       /\ sinceRewrite' = IF c.rewritten THEN 0 ELSE sinceRewrite + n
                       /\ latest' = [latest EXCEPT ![k] = Removed]
                       /\ last' = Call("remove", k, "", c.res, c.ran,
                                       IF c.ran THEN GetAll(index1, log1) ELSE NoGets, fail)
    /\ UNCHANGED <<logExists, opened>>

\* ------------------------------------------------------------------- spec
OpenFails == {"none", "open", "create", "reopen", "read"}
MutateFails == {"none", "open", "write"} \cup CompactFails
GetFails == {"none", "read"}

Next ==
    \/ \E fail \in OpenFails : Open(fail)
    \/ Close
    \/ \E k \in Keys, v \in Values, fail \in MutateFails : Set(k, v, fail)
    \/ \E k \in Keys, fail \in GetFails : Get(k, fail)
    \/ \E k \in Keys, fail \in MutateFails : Remove(k, fail)

Spec == Init /\ [][Next]_vars

\* ------------------------------------------- longer runs without failures
InitDeep ==
    /\ logExists = FALSE
    /\ log = <<>>
    /\ opened = FALSE
    /\ index = EmptyIndex
    /\ log_size = 0
    /\ last = Call("init", "", "", Ok, FALSE, NoGets, "none")
    /\ latest = [k \in Keys |-> NoValue]
    /\ ioFailures = 0
    /\ appendsLeft = MaxDeepAppends
    /\ sinceRewrite = 0

NextDeep ==
    \/ Open("none")
    \/ Close
    \/ \E k \in Keys, v \in Values : Set(k, v, "none")
    \/ \E k \in Keys : Get(k, "none")
    \/ \E k \in Keys : Remove(k, "none")

SpecDeep == InitDeep /\ [][NextDeep]_vars

\* ---------------------------------------------------- open on a given Log
\* the lines a Log handed to open may hold: every Set and Rm record, a Get
\* record, and two lines that do not parse (a cut record, an empty line)
ReplayLines ==
    {Line(OpSet(k, v)) : k \in Keys, v \in Values}
    \cup {Line(OpRm(k)) : k \in Keys}
    \cup {Line(OpGet("a"))}
    \cup {[op |-> OpSet("a", "1"), skip |-> 5],
          [op |-> OpRm("b"), skip |-> SerializedLen(OpRm("b")) - 1]}

RECURSIVE SeqsUpTo(_, _)
SeqsUpTo(S, n) ==
    IF n = 0 THEN {<<>>}
    ELSE SeqsUpTo(S, n - 1)
         \cup {Append(q, x) : q \in {r \in SeqsUpTo(S, n - 1) : Len(r) = n - 1}, x \in S}

\* a process starts in a directory whose store file has any such content
InitReplay ==
    /\ logExists = TRUE
    /\ log \in SeqsUpTo(ReplayLines, MaxReplayLines)
    /\ opened = FALSE
    /\ index = EmptyIndex
    /\ log_size = 0
    /\ last = Call("init", "", "", Ok, FALSE, NoGets, "none")
    /\ latest = [k \in Keys |-> NoValue]
    /\ ioFailures = 0
    /\ appendsLeft = 0
    /\ sinceRewrite = 0

NextReplay ==
    \/ Open("none")
    \/ Close
    \/ \E k \in Keys : Get(k, "none")

SpecReplay == InitReplay /\ [][NextReplay]_vars

TypeOK ==
    /\ logExists \in BOOLEAN
    /\ opened \in BOOLEAN
    /\ ioFailures \in 0..MaxIoFailures
    /\ DOMAIN index \subseteq Keys
    /\ log_size \in Nat
    /\ appendsLeft \in Nat
    /\ sinceRewrite <= FileLen(log)
    /\ sinceRewrite \in Nat

\* ------------------------------------------------------------------ claims
\* the line the index entry of k points at
IndexedText(k) == ReadLineAt(log, index[k])
\* keys whose most recent mutation is a set
LiveKeys == {k \in Keys : latest[k] \in Values}

\* C1: right after a set(k, v) that returned Ok, get(k) returns Some(v),
\* whether or not k held a value before and whether or not the call compacted.
C1_SetThenGet ==
    (opened /\ ~ioFailed /\ last.op = "set" /\ last.res = Ok)
        => GetResult(index, log, last.key) = Some(last.value)

\* C2: when the store is dropped and opened again on the same directory,
\* open returns a store and get returns for every key what it returned just
\* before the drop.
C2_ReplayEquivalence ==
    (~ioFailed /\ last.op = "open" /\ last.pre # NoGets)
        => (last.res = Ok /\ GetAll(index, log) = last.pre)

\* C3: right after a call that compacted, get returns for every key what it
\* returned between the append/index update of that call and its compaction.
C3_CompactionKeepsGets ==
    (opened /\ ~ioFailed /\ last.compacted) => GetAll(index, log) = last.pre

\* C4: get(k) returns None for every key whose most recent mutation is a
\* successful remove, in every state up to the next set of that key.
C4_RemovedStaysNone ==
    (opened /\ ~ioFailed)
        => \A k \in Keys : latest[k] = Removed => GetResult(index, log, k) = None

\* C5: for every key k in the index, the line at the stored offset is the
\* complete encoding of Set(k, v) with v the value of the latest set of k.
C5_IndexInvariant ==
    (opened /\ ~ioFailed)
        => \A k \in DOMAIN index :
              /\ DecodeOk(IndexedText(k))
              /\ Decode(IndexedText(k)) = OpSet(k, latest[k])

\* C6: the keys of the index are exactly the keys whose most recent mutation
\* is a set.
C6_IndexKeys ==
    (opened /\ ~ioFailed) => DOMAIN index = LiveKeys

\* C7: right after a compaction the log holds one line per key of the index,
\* the encoding of that key's current Set, and nothing else.
C7_CompactedLog ==
    (opened /\ ~ioFailed /\ last.compacted)
        => /\ Len(log) = Cardinality(DOMAIN index)
           /\ \A k \in DOMAIN index :
                 \E i \in 1..Len(log) : log[i] = Line(OpSet(k, latest[k]))

\* C8: remove(k) for a key that is not in the index returns KeyNotFoundError
\* and changes neither the log, the index nor the size counter, and does not
\* compact.
C8_RemoveMissing ==
    [][(opened /\ last'.op = "remove" /\ last'.key \notin DOMAIN index)
          => /\ last'.res = Err("KeyNotFoundError")
             /\ ~last'.compacted
             /\ log' = log /\ index' = index /\ log_size' = log_size]_vars

\* C8 witness: remove of an already removed key was refused while other keys
\* are indexed
C8_Witness ==
    /\ last.op = "remove" /\ last.res = Err("KeyNotFoundError")
    /\ latest[last.key] = Removed
    /\ DOMAIN index # {} /\ log # <<>>

\* C9: while no I/O call has failed, get returns Some or None for every key,
\* never InvalidCommandError, InvalidKeyError or a decode error.
C9_GetNeverInconsistent ==
    (opened /\ ~ioFailed)
        => \A k \in Keys : GetResult(index, log, k).tag \in {"Some", "None"}

\* C10: a set or remove whose append fails (open, seek, write or flush)
\* returns an error and leaves the index as it was before the call.
C10_FailedAppendKeepsIndex ==
    [][(last'.op \in {"set", "remove"} /\ last'.fail \in {"open", "write"})
          => (last'.res = Err("IoError") /\ index' = index)]_vars

\* C10 witness: a set of a key that is not indexed failed at its write, and
\* the key is still not indexed
C10_Witness ==
    /\ last.op = "set" /\ last.fail = "write" /\ last.res = Err("IoError")
    /\ last.key \notin DOMAIN index
    /\ DOMAIN index # {}

\* C11: a call in which an I/O operation fails returns Err(IoError): it does
\* not panic and does not return Ok.
C11_IoFailureIsReturned ==
    last.fail # "none" => last.res = Err("IoError")

\* a line of the log that serde_json does not parse
Malformed(c) == ~DecodeOk(<<c>>)

StartOf(i) == FileLen(SubSeq(log, 1, i - 1))

\* C13: right after a compaction, every index entry is the offset at which
\* that key's Set line begins in the rewritten log.
C13_CompactionRelocatesIndex ==
    (opened /\ ~ioFailed /\ last.compacted)
        => \A k \in DOMAIN index :
              \E i \in 1..Len(log) :
                 /\ log[i] = Line(OpSet(k, log[i].op.value))
                 /\ index[k] = StartOf(i)

\* line i is the last record of its key in the log
LastOfKey(i) == \A j \in (i + 1)..Len(log) : log[j].op.key # log[i].op.key

\* C14: after open on a log of complete Set and Rm lines, the index holds
\* exactly the keys whose last record is a Set, each at the byte offset at
\* which that last Set line begins.
C14_ReplayResult ==
    (opened /\ last.op = "open"
       /\ \A i \in 1..Len(log) : ~Malformed(log[i]) /\ log[i].op.tag \in {"Set", "Rm"})
        => /\ DOMAIN index =
                {k \in Keys : \E i \in 1..Len(log) :
                     log[i].op.key = k /\ log[i].op.tag = "Set" /\ LastOfKey(i)}
           /\ \A i \in 1..Len(log) :
                 (log[i].op.tag = "Set" /\ LastOfKey(i)) => index[log[i].op.key] = StartOf(i)

\* C14 witness: open returned a store for a log of three lines in which one
\* key was removed and an indexed key's last Set is not the first line
C14_Witness ==
    /\ opened /\ last.op = "open" /\ last.res = Ok
    /\ Len(log) = 3
    /\ \A i \in 1..Len(log) : ~Malformed(log[i]) /\ log[i].op.tag \in {"Set", "Rm"}
    /\ \E i \in 1..Len(log) : log[i].op.tag = "Rm" /\ LastOfKey(i)
    /\ \E k \in DOMAIN index : index[k] > 0

\* C15: no set or remove returns Ok without compacting when the bytes
\* appended to the log since it was created or last rewritten have reached
\* the threshold.
C15_CompactionTrigger ==
    (~ioFailed /\ last.op \in {"set", "remove"} /\ last.res = Ok /\ ~last.compacted)
        => sinceRewrite < COMPACT_THRESHOLD

\* C16: between operations the size counter equals the length of the log
\* file.
C16_SizeAccounting ==
    (opened /\ ~ioFailed) => log_size = FileLen(log)

\* p is a prefix of q
IsPrefix(p, q) == Len(p) <= Len(q) /\ SubSeq(q, 1, Len(p)) = p

\* C17: a set or remove that returns Ok without compacting leaves the log as
\* it was plus the one record of the call at its end, and no step other than
\* a compaction replaces what the log held.
C17_AppendOnly ==
    [][/\ (last'.op = "set" /\ last'.res = Ok /\ ~last'.compacted)
            => log' = log \o <<[op |-> OpSet(last'.key, last'.value), skip |-> 0]>>
       /\ (last'.op = "remove" /\ last'.res = Ok /\ ~last'.compacted)
            => log' = log \o <<[op |-> OpRm(last'.key), skip |-> 0]>>
       /\ ~IsPrefix(log, log')
            => (last'.compacted \/ last'.fail = "compact_write")]_vars

\* C17 witness: a remove returned Ok without compacting and its tombstone is
\* the last line of a log that holds earlier records
C17_Witness ==
    /\ last.op = "remove" /\ last.res = Ok /\ ~last.compacted
    /\ Len(log) >= 2
    /\ log[Len(log)] = [op |-> OpRm(last.key), skip |-> 0]

\* C18: while no I/O call has failed, every line of the log is the complete
\* encoding of a Set or Rm record, so that a later open parses it.
C18_LogWellFormed ==
    ~ioFailed
        => /\ \A i \in 1..Len(log) : ~Malformed(log[i]) /\ log[i].op.tag \in {"Set", "Rm"}
           /\ construct_index(log).ok

\* C19: get changes neither the log, the index nor the size counter and does
\* not compact, whatever it returns.
C19_GetReadOnly ==
    [][last'.op = "get"
          => /\ log' = log /\ index' = index /\ log_size' = log_size
             /\ logExists' = logExists
             /\ ~last'.compacted]_vars

\* C19 witness: get returned an error for an indexed key while the size
\* counter is at or over the compaction threshold
C19_Witness ==
    /\ last.op = "get" /\ last.fail = "none" /\ last.res.tag = "Err"
    /\ CompactDue(log_size)

====
